---------------------------- MODULE Spec2Model ----------------------------
(***************************************************************************)
(* Model of the collaborative-canvas server and of its browser clients.    *)
(*                                                                         *)
(*   - History Store: class DrawingStateManager (server/drawing-state.js,  *)
(*     src/unnamed/part_003)                                               *)
(*   - Room Registry: class RoomManager (server/rooms.js, listed in        *)
(*     src/unnamed/part_001, lines 403-569)                                *)
(*   - Event Router / Session Lifecycle: the socket.io handlers of         *)
(*     server/server.js (src/unnamed/part_002)                             *)
(*   - Clients: CanvasManager and WebSocketManager (src/client/canvas.js)  *)
(*     with the toolbar handlers of src/client/main.js                     *)
(*                                                                         *)
(* Indices are kept as in the JavaScript source: historyIndex is 0-based   *)
(* and -1 for an empty history, so the entry under the cursor is           *)
(* history[historyIndex + 1] in TLA+'s 1-based sequences.                  *)
(*                                                                         *)
(* Date.now() timestamps (history entries, drawing entries, relayed        *)
(* events, createdAt of a drawing state) and the random id of a drawing    *)
(* entry are written by the code but read by none of the modelled          *)
(* operations; they are left out of the records.  createdAt of a registry  *)
(* room is read by cleanupEmptyRooms and is kept.                          *)
(***************************************************************************)
EXTENDS Integers, Sequences, FiniteSets, TLC

VARIABLES
    rooms,      \* DrawingStateManager.rooms : roomId -> room state | NoRoom
    prev,       \* the value of rooms when the last call was made (its pre-state)
    call,       \* the last History Store call made: [op, roomId, arg]
    ret,        \* what that call returned
    nOps,       \* number of History Store calls made so far (exploration bound)
    committed,  \* per room, the snapshots handed to setCanvasState, in call order
                \* (recorded only by the commit-only specification SpecCommits)
    logged      \* per room, the operations handed to addDrawing since the last
                \* clearCanvas, in call order (recorded only by SpecLog)

storeVars == <<rooms, prev, call, ret, nOps, committed, logged>>

VARIABLES
    registry,   \* RoomManager.rooms : roomId -> room | NoRoom
    prevReg,    \* the value of registry when the last handler started
    sockets,    \* ids of the connected sockets that have joined room 'default'
    colorIndex, \* server.js colorIndex; also the number of connections accepted
    event,      \* the last inbound event handled: [kind, from, data]
    sent,       \* what the last handler emitted: connection -> messages, in order
    crashed,    \* a handler threw: the exception is uncaught and ends the process
    nEvents     \* number of handler runs so far (exploration bound)

serverVars == <<registry, prevReg, sockets, colorIndex, event, sent, crashed, nEvents>>

VARIABLES
    canvas,      \* per client, the picture on its canvas element: the paths painted
    history,     \* per client, CanvasManager.history: the saved pictures
    historyStep, \* per client, CanvasManager.historyStep (0-based, as in the source)
    knownUsers,  \* per client, the keys of WebSocketManager.users
    currentPath, \* per client and known user, the length of user.currentPath
    loading,     \* per client, data URLs handed to an Image whose onload is pending
    upQ,         \* per connection, the events emitted by the client, not yet handled
    downQ,       \* per connection, the messages emitted to the client, not yet handled
    nActs,       \* number of user gestures so far (exploration bound)
    lateJoiners  \* the clients that connected after the first gesture of the run

clientVars ==
    <<canvas, history, historyStep, knownUsers, currentPath, loading, upQ, downQ,
      nActs, lateJoiners>>

VARIABLES
    walk         \* the run of undos the one client of a single-client run is in:
                 \* its history, cursor and picture when the run began, and the
                 \* number of undos made (recorded only by SpecSolo)

soloVars == <<walk>>

VARIABLES
    clock,       \* Date.now(), in time units since the process started
    rcall,       \* the last Room Registry call made: [op, roomId, arg]
    rret,        \* what that call returned
    vacated,     \* per room, the time its last member left (-1: it has members
                 \* or never had any)
    nCalls       \* number of Room Registry calls made so far (exploration bound)

registryVars == <<clock, rcall, rret, vacated, nCalls>>

VARIABLES
    offline,     \* the connections that were closed and whose page has not
                 \* reconnected yet (recorded only by SpecPresence)
    processed,   \* the events the server handled, in the order it handled them
                 \* (recorded only by SpecOrder)
    stamps,      \* per connection, for each message of downQ the position in
                 \* processed of the event whose handler emitted it, 0 for the
                 \* connection handler (recorded only by SpecOrder)
    inbox        \* per client, the messages it handled, in the order it handled
                 \* them, each with its stamp (recorded only by SpecOrder)

auxVars == <<offline, processed, stamps, inbox>>

-----------------------------------------------------------------------------
(* Bounds of the exploration *)

\* DrawingStateManager.maxHistorySize is 100 in the source (part_003:10).
\* The model runs with a small cap so that the cap is reached and passed.
maxHistorySize == 3

\* Number of direct History Store calls explored from the empty store.
MaxOps == 5

\* Number of addDrawing and clearCanvas calls of the operation-log runs:
\* enough of them to pass twice the cap.
MaxLogOps == 8

\* Number of connections accepted over a run, and of handler runs.
MaxConns == 3
MaxEvents == 5

\* Number of connections accepted over a run in which connections only come
\* and go (one more than the palette has colours), and how many of them are
\* open at once.
MaxAccepted == 11
MaxLive == 2

\* Number of gestures in the runs of several clients in which the order of
\* events and messages is recorded.
MaxOrderActs == 2

\* Number of connections accepted over a run in which pages connect, lose
\* their connection and reconnect.
MaxJoins == 4

\* Number of browser clients in the runs that include the clients, and of the
\* gestures (stroke, undo, redo, clear) their users make.
MaxClients == 2
MaxActs == 3

\* Number of gestures of the one user of a single-client run.
MaxSoloActs == 5

\* Number of direct Room Registry calls explored from the empty registry, and
\* how far the clock advances meanwhile.
MaxCalls == 5
MaxClock == 2

RoomIds == {"default", "r1"}

\* socket.id of the k-th accepted connection (unique per connection)
ConnIds == 1..MaxAccepted

\* Canvas snapshots (data URLs in the source): opaque, pairwise distinct.
Snapshots == {"A", "B", "C"}

\* The snapshots of the commit-only runs: enough of them to pass the cap.
DistinctSnapshots == {"S1", "S2", "S3", "S4", "S5", "S6"}

\* Drawing operations handed to addDrawing: {userId, path, timestamp}.
Drawings == {[userId |-> 1, path |-> "P"]}

\* Payload fields of inbound events (opaque to the server).
Points == {"pt"}
PointLists == {"pts"}
EmptyPath == "[]"
Paths == {EmptyPath, "P"}
Coords == {"10"}
EmptyString == ""

\* generateUsername(): adjective + noun + number, drawn at random
Usernames == {"HappyPanda7"}

\* JavaScript null / the absent map entry (Map.get -> undefined)
Null == "null"
Undefined == "undefined"
True == "true"
NoRoom == [undefined |-> TRUE]

-----------------------------------------------------------------------------
(* History Store: DrawingStateManager *)

\* The object initRoom stores for a new room.
NewRoomState ==
    [canvasState |-> Null, drawings |-> <<>>, history |-> <<>>, historyIndex |-> -1]

\* An entry pushed by setCanvasState, and the marker pushed by clearCanvas.
StateEntry(url) == [state |-> url, type |-> "state"]
ClearEntry == [state |-> Null, type |-> "clear"]

\* initRoom(roomId): creates the room state when absent.
initRoom(rs, roomId) ==
    IF rs[roomId] = NoRoom THEN [rs EXCEPT ![roomId] = NewRoomState] ELSE rs

\* getCanvasState(roomId): vivifies the room and returns its canvasState.
getCanvasState(rs, roomId) ==
    LET rs1 == initRoom(rs, roomId)
    IN  [rooms |-> rs1, ret |-> rs1[roomId].canvasState]

\* Array.prototype.slice(0, end) for 0 <= end
SliceTo(s, end) == SubSeq(s, 1, IF end < Len(s) THEN end ELSE Len(s))

\* Array.prototype.slice(-n) for n > 0: the last n elements
SliceLast(s, n) == IF Len(s) <= n THEN s ELSE SubSeq(s, Len(s) - n + 1, Len(s))

\* Variant of setCanvasState: the eviction forgets `room.historyIndex--`.
setCanvasState_NoCursorShift(rs, roomId, url) ==
    LET rs1    == initRoom(rs, roomId)
        room   == rs1[roomId]
        h1     == IF room.historyIndex < Len(room.history) - 1
                  THEN SliceTo(room.history, room.historyIndex + 1)
                  ELSE room.history
        h2     == Append(h1, StateEntry(url))
        over   == Len(h2) > maxHistorySize
    IN  [rooms |-> [rs1 EXCEPT ![roomId] =
                       [room EXCEPT !.history = IF over THEN Tail(h2) ELSE h2,
                                    !.historyIndex = room.historyIndex + 1,
                                    !.canvasState = url]],
         ret   |-> Undefined]

\* Variant of setCanvasState: the eviction uses pop() where the source uses
\* shift(), dropping the newest entry instead of the oldest.
setCanvasState_EvictNewest(rs, roomId, url) ==
    LET rs1    == initRoom(rs, roomId)
        room   == rs1[roomId]
        h1     == IF room.historyIndex < Len(room.history) - 1
                  THEN SliceTo(room.history, room.historyIndex + 1)
                  ELSE room.history
        h2     == Append(h1, StateEntry(url))
        i2     == room.historyIndex + 1
        over   == Len(h2) > maxHistorySize
    IN  [rooms |-> [rs1 EXCEPT ![roomId] =
                       [room EXCEPT !.history = IF over THEN SubSeq(h2, 1, Len(h2) - 1)
                                                        ELSE h2,
                                    !.historyIndex = IF over THEN i2 - 1 ELSE i2,
                                    !.canvasState = url]],
         ret   |-> Undefined]

\* Variant of setCanvasState: the redo branch is not sliced off before the push.
setCanvasState_NoPrune(rs, roomId, url) ==
    LET rs1    == initRoom(rs, roomId)
        room   == rs1[roomId]
        h2     == Append(room.history, StateEntry(url))
        i2     == room.historyIndex + 1
        over   == Len(h2) > maxHistorySize
    IN  [rooms |-> [rs1 EXCEPT ![roomId] =
                       [room EXCEPT !.history = IF over THEN Tail(h2) ELSE h2,
                                    !.historyIndex = IF over THEN i2 - 1 ELSE i2,
                                    !.canvasState = url]],
         ret   |-> Undefined]

\* Variant of setCanvasState: `room.canvasState = canvasDataURL` is done only
\* while the room has no current state (the first writer wins).
setCanvasState_FirstWriteWins(rs, roomId, url) ==
    LET rs1    == initRoom(rs, roomId)
        room   == rs1[roomId]
        h1     == IF room.historyIndex < Len(room.history) - 1
                  THEN SliceTo(room.history, room.historyIndex + 1)
                  ELSE room.history
        h2     == Append(h1, StateEntry(url))
        i2     == room.historyIndex + 1
        over   == Len(h2) > maxHistorySize
    IN  [rooms |-> [rs1 EXCEPT ![roomId] =
                       [room EXCEPT !.history = IF over THEN Tail(h2) ELSE h2,
                                    !.historyIndex = IF over THEN i2 - 1 ELSE i2,
                                    !.canvasState = IF room.canvasState = Null
                                                    THEN url ELSE room.canvasState]],
         ret   |-> Undefined]

\* setCanvasState(roomId, canvasDataURL)
setCanvasState(rs, roomId, url) ==
    LET rs1    == initRoom(rs, roomId)
        room   == rs1[roomId]
        \* Remove future history if we're not at the end
        h1     == IF room.historyIndex < Len(room.history) - 1
                  THEN SliceTo(room.history, room.historyIndex + 1)
                  ELSE room.history
        \* Add to history
        h2     == Append(h1, StateEntry(url))
        i2     == room.historyIndex + 1
        \* Limit history size
        over   == Len(h2) > maxHistorySize
        h3     == IF over THEN Tail(h2) ELSE h2
        i3     == IF over THEN i2 - 1 ELSE i2
    IN  [rooms |-> [rs1 EXCEPT ![roomId] =
                       [room EXCEPT !.history = h3,
                                    !.historyIndex = i3,
                                    !.canvasState = url]],
         ret   |-> Undefined]

\* Variant of addDrawing: the trim keeps the oldest entries, slice(0, N).
addDrawing_KeepOldest(rs, roomId, drawing) ==
    LET rs1  == initRoom(rs, roomId)
        room == rs1[roomId]
        d1   == Append(room.drawings, drawing)
        d2   == IF Len(d1) > maxHistorySize * 2
                THEN SliceTo(d1, maxHistorySize)
                ELSE d1
    IN  [rooms |-> [rs1 EXCEPT ![roomId] = [room EXCEPT !.drawings = d2]],
         ret   |-> True]

\* addDrawing(roomId, drawing)
addDrawing(rs, roomId, drawing) ==
    LET rs1  == initRoom(rs, roomId)
        room == rs1[roomId]
        d1   == Append(room.drawings, drawing)
        d2   == IF Len(d1) > maxHistorySize * 2
                THEN SliceLast(d1, maxHistorySize)
                ELSE d1
    IN  [rooms |-> [rs1 EXCEPT ![roomId] = [room EXCEPT !.drawings = d2]],
         ret   |-> True]

\* Variant of undo: the entry is read before the cursor is decremented, so the
\* state that was left is restored and returned.
undo_StaleEntry(rs, roomId) ==
    LET room == rs[roomId]
    IN  IF room = NoRoom THEN [rooms |-> rs, ret |-> Null]
        ELSE IF room.historyIndex > 0
        THEN LET previousState == room.history[room.historyIndex + 1]
             IN  [rooms |-> [rs EXCEPT ![roomId] =
                                [room EXCEPT !.historyIndex = room.historyIndex - 1,
                                             !.canvasState = previousState.state]],
                  ret   |-> previousState.state]
        ELSE [rooms |-> rs, ret |-> Null]

\* undo(roomId)
undo(rs, roomId) ==
    LET room == rs[roomId]
    IN  IF room = NoRoom THEN [rooms |-> rs, ret |-> Null]
        ELSE IF room.historyIndex > 0
        THEN LET i1            == room.historyIndex - 1
                 previousState == room.history[i1 + 1]
             IN  [rooms |-> [rs EXCEPT ![roomId] =
                                [room EXCEPT !.historyIndex = i1,
                                             !.canvasState = previousState.state]],
                  ret   |-> previousState.state]
        ELSE [rooms |-> rs, ret |-> Null]

\* Variant of redo: the cursor moves and the entry is returned, but
\* room.canvasState is not assigned.
redo_NoCanvasUpdate(rs, roomId) ==
    LET room == rs[roomId]
    IN  IF room = NoRoom THEN [rooms |-> rs, ret |-> Null]
        ELSE IF room.historyIndex < Len(room.history) - 1
        THEN LET i1        == room.historyIndex + 1
                 nextState == room.history[i1 + 1]
             IN  [rooms |-> [rs EXCEPT ![roomId] = [room EXCEPT !.historyIndex = i1]],
                  ret   |-> nextState.state]
        ELSE [rooms |-> rs, ret |-> Null]

\* redo(roomId)
redo(rs, roomId) ==
    LET room == rs[roomId]
    IN  IF room = NoRoom THEN [rooms |-> rs, ret |-> Null]
        ELSE IF room.historyIndex < Len(room.history) - 1
        THEN LET i1        == room.historyIndex + 1
                 nextState == room.history[i1 + 1]
             IN  [rooms |-> [rs EXCEPT ![roomId] =
                                [room EXCEPT !.historyIndex = i1,
                                             !.canvasState = nextState.state]],
                  ret   |-> nextState.state]
        ELSE [rooms |-> rs, ret |-> Null]

\* clearCanvas(roomId)
clearCanvas(rs, roomId) ==
    LET rs1  == initRoom(rs, roomId)
        room == rs1[roomId]
    IN  [rooms |-> [rs1 EXCEPT ![roomId] =
                       [room EXCEPT !.drawings = <<>>,
                                    !.canvasState = Null,
                                    !.history = Append(room.history, ClearEntry),
                                    !.historyIndex = room.historyIndex + 1]],
         ret   |-> True]

-----------------------------------------------------------------------------
(* Room Registry: RoomManager *)

\* createRoom(roomId): the room object stored when absent. users is a Map;
\* it is kept as the sequence of its values in insertion order.
createRoom(reg, roomId) ==
    IF reg[roomId] = NoRoom
    THEN [reg EXCEPT ![roomId] = [id |-> roomId, users |-> <<>>,
                                  createdAt |-> clock]]
    ELSE reg

\* getRoom(roomId): creates the room if it does not exist.
getRoom(reg, roomId) == IF reg[roomId] = NoRoom THEN createRoom(reg, roomId) ELSE reg

\* Variant of Map.prototype.set: an array push, which keeps the entry already
\* stored under the key.
MapSet_Push(users, user) == Append(users, user)

\* Map.prototype.set(key, value): replaces in place or appends.
MapSet(users, user) ==
    IF \E i \in 1..Len(users) : users[i].id = user.id
    THEN [i \in 1..Len(users) |-> IF users[i].id = user.id THEN user ELSE users[i]]
    ELSE Append(users, user)

\* Variant of Map.prototype.delete: the oldest entry goes, whatever the key.
MapDelete_Oldest(users, userId) == IF users = <<>> THEN users ELSE Tail(users)

\* Map.prototype.delete(key)
MapDelete(users, userId) == SelectSeq(users, LAMBDA u : u.id # userId)

\* addUser(roomId, user)
addUser(reg, roomId, user) ==
    LET reg1 == getRoom(reg, roomId)
    IN  [reg1 EXCEPT ![roomId].users = MapSet(@, user)]

\* Variant of removeUser: reports the removal without `room.users.delete(userId)`.
removeUser_NoDelete(reg, roomId, userId) ==
    IF reg[roomId] = NoRoom THEN [registry |-> reg, ret |-> FALSE]
    ELSE IF \E i \in 1..Len(reg[roomId].users) : reg[roomId].users[i].id = userId
    THEN [registry |-> reg, ret |-> TRUE]
    ELSE [registry |-> reg, ret |-> FALSE]

\* Variant of removeUser: the room is looked up with getRoom, which creates it.
removeUser_CreatesRoom(reg, roomId, userId) ==
    IF reg[roomId] = NoRoom THEN [registry |-> getRoom(reg, roomId), ret |-> FALSE]
    ELSE IF \E i \in 1..Len(reg[roomId].users) : reg[roomId].users[i].id = userId
    THEN [registry |-> [reg EXCEPT ![roomId].users = MapDelete(@, userId)],
          ret |-> TRUE]
    ELSE [registry |-> reg, ret |-> FALSE]

\* Variant of removeUser: the "clean up empty rooms" branch deletes the room
\* when its last member leaves.
removeUser_DeleteWhenEmpty(reg, roomId, userId) ==
    IF reg[roomId] = NoRoom THEN [registry |-> reg, ret |-> FALSE]
    ELSE IF \E i \in 1..Len(reg[roomId].users) : reg[roomId].users[i].id = userId
    THEN [registry |-> IF Len(MapDelete(reg[roomId].users, userId)) = 0
                       THEN [reg EXCEPT ![roomId] = NoRoom]
                       ELSE [reg EXCEPT ![roomId].users = MapDelete(@, userId)],
          ret |-> TRUE]
    ELSE [registry |-> reg, ret |-> FALSE]

\* removeUser(roomId, userId)
removeUser(reg, roomId, userId) ==
    IF reg[roomId] = NoRoom THEN [registry |-> reg, ret |-> FALSE]
    ELSE IF \E i \in 1..Len(reg[roomId].users) : reg[roomId].users[i].id = userId
    THEN [registry |-> [reg EXCEPT ![roomId].users = MapDelete(@, userId)],
          ret |-> TRUE]
    ELSE [registry |-> reg, ret |-> FALSE]

\* getUsers(roomId)
getUsers(reg, roomId) == IF reg[roomId] = NoRoom THEN <<>> ELSE reg[roomId].users

\* getUserCount(roomId)
getUserCount(reg, roomId) == IF reg[roomId] = NoRoom THEN 0 ELSE Len(reg[roomId].users)

\* deleteRoom(roomId)
deleteRoom(reg, roomId) ==
    [registry |-> [reg EXCEPT ![roomId] = NoRoom], ret |-> reg[roomId] # NoRoom]

\* Variant of the sweep's test: the age alone decides (no room.users.size test).
Swept_ByAgeOnly(reg, maxAge) ==
    {r \in RoomIds : /\ reg[r] # NoRoom
                     /\ (clock - reg[r].createdAt) > maxAge}

\* The rooms cleanupEmptyRooms(maxAge) deletes: no users, created more than
\* maxAge before now.
Swept(reg, maxAge) ==
    {r \in RoomIds : /\ reg[r] # NoRoom
                     /\ Len(reg[r].users) = 0
                     /\ (clock - reg[r].createdAt) > maxAge}

\* cleanupEmptyRooms(maxAge)
cleanupEmptyRooms(reg, maxAge) ==
    [registry |-> [r \in RoomIds |-> IF r \in Swept(reg, maxAge) THEN NoRoom ELSE reg[r]],
     ret |-> Cardinality(Swept(reg, maxAge))]

-----------------------------------------------------------------------------
(* Event Router: the socket.io handlers of server.js *)

\* const roomId = 'default'
roomId0 == "default"

\* The palette connections take their colour from, round-robin.
USER_COLORS ==
    << "#FF6B6B", "#4ECDC4", "#45B7D1", "#FFA07A", "#98D8C8",
       "#F7DC6F", "#BB8FCE", "#85C1E2", "#F8B739", "#52B788" >>

\* An outbound message.
Msg(type, data) == [type |-> type, data |-> data]

NoneSent == [c \in ConnIds |-> <<>>]

\* socket.emit(type, data): to the handler's own connection
EmitSelf(out, c, type, data) == [out EXCEPT ![c] = Append(@, Msg(type, data))]

\* Variant of socket.to(roomId).emit: io.to(roomId).emit was written instead,
\* so the sender is a recipient too.
EmitToOthers_IncludeSender(out, members, c, type, data) ==
    [d \in ConnIds |->
        IF d \in members THEN Append(out[d], Msg(type, data)) ELSE out[d]]

\* socket.to(roomId).emit(type, data): to every socket in the room but c
EmitToOthers(out, members, c, type, data) ==
    [d \in ConnIds |->
        IF d \in members \ {c} THEN Append(out[d], Msg(type, data)) ELSE out[d]]

\* io.to(roomId).emit(type, data): to every socket in the room
EmitToRoom(out, members, type, data) ==
    [d \in ConnIds |-> IF d \in members THEN Append(out[d], Msg(type, data)) ELSE out[d]]

\* Payloads a client may send; NoPayload is an event emitted with no argument.
NoPayload == [undefined |-> TRUE]
DrawStartData == {NoPayload} \cup {[point |-> p] : p \in Points \cup {Undefined}}
DrawMoveData == {NoPayload} \cup {[points |-> p] : p \in PointLists \cup {Undefined}}
DrawEndData == {NoPayload} \cup {[path |-> p] : p \in Paths \cup {Undefined}}
CursorMoveData ==
    {NoPayload} \cup {[x |-> x, y |-> y] : x \in Coords \cup {Undefined},
                                           y \in Coords \cup {Undefined}}
UndoRedoData ==
    {NoPayload} \cup {[canvasState |-> s] : s \in {Undefined, EmptyString, "A", "B"}}

\* JavaScript truthiness of a canvasState field
Truthy(v) == v \notin {Undefined, Null, EmptyString}

ServerInit ==
    /\ registry = [r \in RoomIds |-> NoRoom]
    /\ prevReg = registry
    /\ sockets = {}
    /\ colorIndex = 0
    /\ event = [kind |-> "start", from |-> 0, data |-> NoPayload]
    /\ sent = NoneSent
    /\ crashed = FALSE
    /\ nEvents = 0

\* What every handler run does to the bookkeeping variables.
Handle(kind, c, data) ==
    /\ ~crashed
    /\ event' = [kind |-> kind, from |-> c, data |-> data]
    /\ prev' = rooms
    /\ prevReg' = registry
    /\ UNCHANGED <<call, ret, nOps, committed, logged>>
    /\ UNCHANGED registryVars

\* Reading a field of an undefined payload throws a TypeError before anything
\* is emitted; nothing catches it.
Throw ==
    /\ crashed' = TRUE
    /\ sent' = NoneSent
    /\ UNCHANGED <<rooms, registry, sockets, colorIndex>>

\* Variant of the connection handler: user-joined is sent with io.to(roomId),
\* so the new connection is told about itself.
Connect_JoinedToRoom ==
    \E username \in Usernames :
        LET c     == colorIndex + 1
            user  == [id |-> c, username |-> username,
                      color |-> USER_COLORS[(colorIndex % Len(USER_COLORS)) + 1],
                      socketId |-> c]
            reg1  == addUser(registry, roomId0, user)
            got   == getCanvasState(rooms, roomId0)
            out1  == EmitSelf(NoneSent, c, "init",
                              [userId |-> c, username |-> username,
                               color |-> user.color, canvasState |-> got.ret])
            out2  == EmitSelf(out1, c, "users", getUsers(reg1, roomId0))
            out3  == EmitToRoom(out2, sockets \cup {c}, "user-joined", user)
        IN  /\ Handle("connection", c, NoPayload)
            /\ colorIndex' = colorIndex + 1
            /\ registry' = reg1
            /\ sockets' = sockets \cup {c}
            /\ rooms' = got.rooms
            /\ sent' = out3
            /\ UNCHANGED crashed

\* Variant of the connection handler: colorIndex++ comes before the colour
\* is taken from the palette.
Connect_IncrementFirst ==
    \E username \in Usernames :
        LET c     == colorIndex + 1
            user  == [id |-> c, username |-> username,
                      color |-> USER_COLORS[((colorIndex + 1) % Len(USER_COLORS)) + 1],
                      socketId |-> c]
            reg1  == addUser(registry, roomId0, user)
            got   == getCanvasState(rooms, roomId0)
            out1  == EmitSelf(NoneSent, c, "init",
                              [userId |-> c, username |-> username,
                               color |-> user.color, canvasState |-> got.ret])
            out2  == EmitSelf(out1, c, "users", getUsers(reg1, roomId0))
            out3  == EmitToOthers(out2, sockets \cup {c}, c, "user-joined", user)
        IN  /\ Handle("connection", c, NoPayload)
            /\ colorIndex' = colorIndex + 1
            /\ registry' = reg1
            /\ sockets' = sockets \cup {c}
            /\ rooms' = got.rooms
            /\ sent' = out3
            /\ UNCHANGED crashed

\* io.on('connection', ...)
Connect ==
    \E username \in Usernames :
        LET c     == colorIndex + 1
            user  == [id |-> c, username |-> username,
                      color |-> USER_COLORS[(colorIndex % Len(USER_COLORS)) + 1],
                      socketId |-> c]
            reg1  == addUser(registry, roomId0, user)
            got   == getCanvasState(rooms, roomId0)
            out1  == EmitSelf(NoneSent, c, "init",
                              [userId |-> c, username |-> username,
                               color |-> user.color, canvasState |-> got.ret])
            out2  == EmitSelf(out1, c, "users", getUsers(reg1, roomId0))
            out3  == EmitToOthers(out2, sockets \cup {c}, c, "user-joined", user)
        IN  /\ Handle("connection", c, NoPayload)
            /\ colorIndex' = colorIndex + 1
            /\ registry' = reg1
            /\ sockets' = sockets \cup {c}
            /\ rooms' = got.rooms
            /\ sent' = out3
            /\ UNCHANGED crashed

\* socket.on('draw-start', ...)
DrawStart ==
    \E c \in sockets, data \in DrawStartData :
        /\ Handle("draw-start", c, data)
        /\ IF data = NoPayload THEN Throw
           ELSE /\ sent' = EmitToOthers(NoneSent, sockets, c, "draw-start",
                                        [userId |-> c, point |-> data.point])
                /\ UNCHANGED <<rooms, registry, sockets, colorIndex, crashed>>

\* socket.on('draw-move', ...)
DrawMove ==
    \E c \in sockets, data \in DrawMoveData :
        /\ Handle("draw-move", c, data)
        /\ IF data = NoPayload THEN Throw
           ELSE /\ sent' = EmitToOthers(NoneSent, sockets, c, "draw-move",
                                        [userId |-> c, points |-> data.points])
                /\ UNCHANGED <<rooms, registry, sockets, colorIndex, crashed>>

\* Variant of the draw-end handler: the completed stroke is also committed to
\* the undo stack (setCanvasState with the path).
DrawEnd_CommitsStroke ==
    \E c \in sockets, data \in DrawEndData :
        /\ Handle("draw-end", c, data)
        /\ IF data = NoPayload THEN Throw
           ELSE /\ rooms' = setCanvasState(
                               addDrawing(rooms, roomId0,
                                          [userId |-> c, path |-> data.path]).rooms,
                               roomId0, data.path).rooms
                /\ sent' = EmitToOthers(NoneSent, sockets, c, "draw-end",
                                        [userId |-> c, path |-> data.path])
                /\ UNCHANGED <<registry, sockets, colorIndex, crashed>>

\* socket.on('draw-end', ...)
DrawEnd ==
    \E c \in sockets, data \in DrawEndData :
        /\ Handle("draw-end", c, data)
        /\ IF data = NoPayload THEN Throw
           ELSE /\ rooms' = addDrawing(rooms, roomId0,
                                       [userId |-> c, path |-> data.path]).rooms
                /\ sent' = EmitToOthers(NoneSent, sockets, c, "draw-end",
                                        [userId |-> c, path |-> data.path])
                /\ UNCHANGED <<registry, sockets, colorIndex, crashed>>

\* socket.on('cursor-move', ...)
CursorMove ==
    \E c \in sockets, data \in CursorMoveData :
        /\ Handle("cursor-move", c, data)
        /\ IF data = NoPayload THEN Throw
           ELSE /\ sent' = EmitToOthers(NoneSent, sockets, c, "cursor-move",
                                        [userId |-> c, x |-> data.x, y |-> data.y])
                /\ UNCHANGED <<rooms, registry, sockets, colorIndex, crashed>>

\* Variant of the undo/redo handlers: the broadcast is made with
\* socket.to(roomId) as in the draw handlers, so the sender gets no echo.
UndoRedoEvent_SkipSender(kind) ==
    \E c \in sockets, data \in UndoRedoData :
        /\ Handle(kind, c, data)
        /\ IF data = NoPayload THEN Throw
           ELSE /\ rooms' = IF Truthy(data.canvasState)
                            THEN setCanvasState(rooms, roomId0, data.canvasState).rooms
                            ELSE rooms
                /\ sent' = EmitToOthers(NoneSent, sockets, c, kind,
                                        [userId |-> c, canvasState |-> data.canvasState])
                /\ UNCHANGED <<registry, sockets, colorIndex, crashed>>

\* Variant of the undo/redo handlers: the store's own undo() and redo() are
\* called, moving the cursor, and the snapshot they return is broadcast.
UndoRedoEvent_MovesCursor(kind) ==
    \E c \in sockets, data \in UndoRedoData :
        /\ Handle(kind, c, data)
        /\ IF data = NoPayload THEN Throw
           ELSE LET res == IF kind = "undo" THEN undo(rooms, roomId0)
                                            ELSE redo(rooms, roomId0)
                IN  /\ rooms' = res.rooms
                    /\ sent' = EmitToRoom(NoneSent, sockets, kind,
                                          [userId |-> c, canvasState |-> res.ret])
                    /\ UNCHANGED <<registry, sockets, colorIndex, crashed>>

\* The body shared by socket.on('undo', ...) and socket.on('redo', ...)
UndoRedoEvent(kind) ==
    \E c \in sockets, data \in UndoRedoData :
        /\ Handle(kind, c, data)
        /\ IF data = NoPayload THEN Throw
           ELSE /\ rooms' = IF Truthy(data.canvasState)
                            THEN setCanvasState(rooms, roomId0, data.canvasState).rooms
                            ELSE rooms
                /\ sent' = EmitToRoom(NoneSent, sockets, kind,
                                      [userId |-> c, canvasState |-> data.canvasState])
                /\ UNCHANGED <<registry, sockets, colorIndex, crashed>>

\* socket.on('undo', ...)
UndoEvent == UndoRedoEvent("undo")

\* socket.on('redo', ...)
RedoEvent == UndoRedoEvent("redo")

\* socket.on('clear-canvas', ...)
ClearCanvasEvent ==
    \E c \in sockets :
        /\ Handle("clear-canvas", c, NoPayload)
        /\ rooms' = clearCanvas(rooms, roomId0).rooms
        /\ sent' = EmitToRoom(NoneSent, sockets, "clear-canvas", NoPayload)
        /\ UNCHANGED <<registry, sockets, colorIndex, crashed>>

\* socket.on('ping', ...)
Ping ==
    \E c \in sockets :
        /\ Handle("ping", c, NoPayload)
        /\ sent' = EmitSelf(NoneSent, c, "pong", NoPayload)
        /\ UNCHANGED <<rooms, registry, sockets, colorIndex, crashed>>

\* Variant of the disconnect handler: when the last member leaves, the room's
\* drawing state is deleted with it (drawingStateManager.deleteRoom).
Disconnect_DropStateWhenEmpty ==
    \E c \in sockets :
        LET left == sockets \ {c}
            rem  == removeUser(registry, roomId0, c)
            out1 == EmitToOthers(NoneSent, left, c, "user-left", c)
            out2 == EmitToRoom(out1, left, "users", getUsers(rem.registry, roomId0))
        IN  /\ Handle("disconnect", c, NoPayload)
            /\ registry' = rem.registry
            /\ sockets' = left
            /\ sent' = out2
            /\ rooms' = IF left = {} THEN [rooms EXCEPT ![roomId0] = NoRoom] ELSE rooms
            /\ UNCHANGED <<colorIndex, crashed>>

\* socket.on('disconnect', ...): socket.io has already taken the socket out of
\* its rooms when the handler runs.
Disconnect ==
    \E c \in sockets :
        LET left == sockets \ {c}
            rem  == removeUser(registry, roomId0, c)
            out1 == EmitToOthers(NoneSent, left, c, "user-left", c)
            out2 == EmitToRoom(out1, left, "users", getUsers(rem.registry, roomId0))
        IN  /\ Handle("disconnect", c, NoPayload)
            /\ registry' = rem.registry
            /\ sockets' = left
            /\ sent' = out2
            /\ UNCHANGED <<rooms, colorIndex, crashed>>

\* One more handler run of a server explored without its clients.
Budget ==
    /\ nEvents < MaxEvents
    /\ nEvents' = nEvents + 1
    /\ UNCHANGED <<clientVars, soloVars, auxVars>>

ServerNext ==
    \/ Budget /\ colorIndex < MaxConns /\ Connect
    \/ Budget /\ DrawStart
    \/ Budget /\ DrawMove
    \/ Budget /\ DrawEnd
    \/ Budget /\ CursorMove
    \/ Budget /\ UndoEvent
    \/ Budget /\ RedoEvent
    \/ Budget /\ ClearCanvasEvent
    \/ Budget /\ Ping
    \/ Budget /\ Disconnect

\* One more step of a server on which connections only come and go.
Arrival == UNCHANGED <<nEvents, clientVars, soloVars, auxVars>>

PaletteNext ==
    \/ colorIndex < MaxAccepted /\ Cardinality(sockets) < MaxLive /\ Connect /\ Arrival
    \/ Disconnect /\ Arrival

-----------------------------------------------------------------------------
(* The History Store driven directly through its public methods *)

\* constructor(): this.rooms = new Map()
StoreInit ==
    /\ rooms = [r \in RoomIds |-> NoRoom]
    /\ prev = rooms
    /\ committed = [r \in RoomIds |-> <<>>]
    /\ logged = [r \in RoomIds |-> <<>>]
    /\ call = [op |-> "new", roomId |-> Null, arg |-> Null]
    /\ ret = Null
    /\ nOps = 0

\* What every direct History Store call does to the bookkeeping variables,
\* in a run of at most max calls; res is what the method leaves and returns.
ApplyWithin(max, op, roomId, arg, res) ==
    /\ nOps < max
    /\ nOps' = nOps + 1
    /\ call' = [op |-> op, roomId |-> roomId, arg |-> arg]
    /\ prev' = rooms
    /\ rooms' = res.rooms
    /\ ret' = res.ret
    /\ UNCHANGED <<serverVars, clientVars, soloVars, registryVars, auxVars>>

Apply(op, roomId, arg, res) == ApplyWithin(MaxOps, op, roomId, arg, res)

GetCanvasState ==
    /\ \E r \in RoomIds : Apply("getCanvasState", r, Null, getCanvasState(rooms, r))
    /\ UNCHANGED <<committed, logged>>

SetCanvasState ==
    /\ \E r \in RoomIds, url \in Snapshots :
          Apply("setCanvasState", r, url, setCanvasState(rooms, r, url))
    /\ UNCHANGED <<committed, logged>>

AddDrawing ==
    /\ \E r \in RoomIds, d \in Drawings :
          Apply("addDrawing", r, d, addDrawing(rooms, r, d))
    /\ UNCHANGED <<committed, logged>>

Undo ==
    /\ \E r \in RoomIds : Apply("undo", r, Null, undo(rooms, r))
    /\ UNCHANGED <<committed, logged>>

Redo ==
    /\ \E r \in RoomIds : Apply("redo", r, Null, redo(rooms, r))
    /\ UNCHANGED <<committed, logged>>

ClearCanvas ==
    /\ \E r \in RoomIds : Apply("clearCanvas", r, Null, clearCanvas(rooms, r))
    /\ UNCHANGED <<committed, logged>>

StoreNext ==
    \/ GetCanvasState
    \/ SetCanvasState
    \/ AddDrawing
    \/ Undo
    \/ Redo
    \/ ClearCanvas

\* Only the undo stack's own operations: setCanvasState, undo, redo.
UndoStackNext ==
    \/ SetCanvasState
    \/ Undo
    \/ Redo

\* setCanvasState with a snapshot the room has not been given before.
CommitDistinct ==
    \E r \in RoomIds :
        \E url \in DistinctSnapshots \ {committed[r][i] : i \in 1..Len(committed[r])} :
            /\ Apply("setCanvasState", r, url, setCanvasState(rooms, r, url))
            /\ committed' = [committed EXCEPT ![r] = Append(@, url)]
            /\ UNCHANGED logged

CommitsNext == CommitDistinct

\* The operation a completed stroke is recorded as: every stroke has a path
\* of its own, here named after the number of the call recording it.
StrokeOf(k) == [userId |-> 1, path |-> ToString(k)]

\* addDrawing with an operation the store has not been given before.
RecordStroke ==
    \E r \in RoomIds :
        /\ ApplyWithin(MaxLogOps, "addDrawing", r, StrokeOf(nOps + 1),
                       addDrawing(rooms, r, StrokeOf(nOps + 1)))
        /\ logged' = [logged EXCEPT ![r] = Append(@, StrokeOf(nOps + 1))]
        /\ UNCHANGED committed

\* clearCanvas: what was recorded before it is no longer to be kept.
ClearLog ==
    \E r \in RoomIds :
        /\ ApplyWithin(MaxLogOps, "clearCanvas", r, Null, clearCanvas(rooms, r))
        /\ logged' = [logged EXCEPT ![r] = <<>>]
        /\ UNCHANGED committed

LogNext ==
    \/ RecordStroke
    \/ ClearLog

-----------------------------------------------------------------------------
(* The browser clients: CanvasManager and WebSocketManager (client/canvas.js) *)
(* and the toolbar handlers of client/main.js                                 *)

\* The picture on a canvas element: the paths painted on its white background.
Blank == {}

\* canvas.toDataURL('image/png'): the PNG of the picture, as a data URL
getCanvasDataURL(px) == IF px = Blank THEN "A" ELSE "B"

\* ctx.fillRect in white, then ctx.drawImage(img, 0, 0): the picture the PNG holds
drawImage(url) == IF url = "A" THEN Blank ELSE {"P"}

\* Number of points of a path payload: "P" is a two-point path, and the batch
\* of one animation frame ("pts") holds the one point of its mousemove.
PathLength(path) == IF path = "P" THEN 2 ELSE 0
BatchLength == 1

\* renderPath(path): a path of fewer than two points paints nothing
renderPath(px, len) == IF len < 2 THEN px ELSE px \cup {"P"}

\* CanvasManager keeps at most 50 saved pictures in the source
\* (canvas.js:216).  The model runs with a small limit so that the limit is
\* reached and passed.
HistoryLimit == 3

\* The CanvasManager of client c: [canvas, history, historyStep]
Manager(c) ==
    [canvas |-> canvas[c], history |-> history[c], historyStep |-> historyStep[c]]

\* Variant of saveState: history.shift() without the historyStep-- after it.
saveState_NoStepBack(cm) ==
    LET pushed == Append(SliceTo(cm.history, cm.historyStep + 1), cm.canvas)
    IN  IF Len(pushed) > HistoryLimit
        THEN [cm EXCEPT !.history = Tail(pushed), !.historyStep = cm.historyStep + 1]
        ELSE [cm EXCEPT !.history = pushed, !.historyStep = cm.historyStep + 1]

\* CanvasManager.saveState()
saveState(cm) ==
    LET pushed == Append(SliceTo(cm.history, cm.historyStep + 1), cm.canvas)
    IN  IF Len(pushed) > HistoryLimit
        THEN [cm EXCEPT !.history = Tail(pushed), !.historyStep = cm.historyStep]
        ELSE [cm EXCEPT !.history = pushed, !.historyStep = cm.historyStep + 1]

\* CanvasManager.undo() when historyStep > 0: putImageData of the entry before
CanvasUndo(cm) ==
    [cm EXCEPT !.historyStep = cm.historyStep - 1,
               !.canvas = cm.history[cm.historyStep]]

\* CanvasManager.redo() when historyStep < history.length - 1
CanvasRedo(cm) ==
    [cm EXCEPT !.historyStep = cm.historyStep + 1,
               !.canvas = cm.history[cm.historyStep + 2]]

\* CanvasManager.clear()
clear(cm) == saveState([cm EXCEPT !.canvas = Blank])

\* new CanvasManager(...) and new WebSocketManager(...) of every page
ClientInit ==
    /\ canvas = [c \in ConnIds |-> Blank]
    /\ history = [c \in ConnIds |-> <<Blank>>]
    /\ historyStep = [c \in ConnIds |-> 0]
    /\ knownUsers = [c \in ConnIds |-> {}]
    /\ currentPath = [c \in ConnIds |-> [u \in ConnIds |-> 0]]
    /\ loading = [c \in ConnIds |-> <<>>]
    /\ upQ = [c \in ConnIds |-> <<>>]
    /\ downQ = [c \in ConnIds |-> <<>>]
    /\ nActs = 0
    /\ lateJoiners = {}

\* The CanvasManager of client c becomes cm.
SetManager(c, cm) ==
    /\ canvas' = [canvas EXCEPT ![c] = cm.canvas]
    /\ history' = [history EXCEPT ![c] = cm.history]
    /\ historyStep' = [historyStep EXCEPT ![c] = cm.historyStep]

\* socket.emit on the client: the events join the connection's queue in order
Emit(c, msgs) == upQ' = [upQ EXCEPT ![c] = @ \o msgs]

\* A gesture of the user of client c.
Gesture(c) ==
    /\ ~crashed
    /\ UNCHANGED <<storeVars, serverVars, registryVars>>
    /\ UNCHANGED <<knownUsers, currentPath, loading, downQ, lateJoiners>>

\* mousedown, one mousemove whose animation frame runs, mouseup:
\* startDrawing, draw, stopDrawing
Stroke ==
    \E c \in sockets :
        /\ Gesture(c)
        /\ SetManager(c, saveState([Manager(c) EXCEPT
                                       !.canvas = renderPath(@, PathLength("P"))]))
        /\ Emit(c, << Msg("draw-start", [point |-> "pt"]),
                      Msg("draw-move", [points |-> "pts"]),
                      Msg("draw-end", [path |-> "P"]) >>)

\* Variant of the Undo handler: sendUndo() is called whatever undo() returned.
ClickUndo_AlwaysSends ==
    \E c \in sockets :
        /\ Gesture(c)
        /\ IF historyStep[c] > 0
           THEN /\ SetManager(c, CanvasUndo(Manager(c)))
                /\ Emit(c, << Msg("undo", [canvasState |->
                                 getCanvasDataURL(CanvasUndo(Manager(c)).canvas)]) >>)
           ELSE /\ Emit(c, << Msg("undo", [canvasState |->
                                 getCanvasDataURL(canvas[c])]) >>)
                /\ UNCHANGED <<canvas, history, historyStep>>

\* The Undo button, and Ctrl+Z: canvasManager.undo(), and sendUndo() if it
\* returned true
ClickUndo ==
    \E c \in sockets :
        /\ Gesture(c)
        /\ IF historyStep[c] > 0
           THEN /\ SetManager(c, CanvasUndo(Manager(c)))
                /\ Emit(c, << Msg("undo", [canvasState |->
                                 getCanvasDataURL(CanvasUndo(Manager(c)).canvas)]) >>)
           ELSE UNCHANGED <<canvas, history, historyStep, upQ>>

\* The Redo button, and Ctrl+Y: canvasManager.redo(), and sendRedo() if it
\* returned true
ClickRedo ==
    \E c \in sockets :
        /\ Gesture(c)
        /\ IF historyStep[c] < Len(history[c]) - 1
           THEN /\ SetManager(c, CanvasRedo(Manager(c)))
                /\ Emit(c, << Msg("redo", [canvasState |->
                                 getCanvasDataURL(CanvasRedo(Manager(c)).canvas)]) >>)
           ELSE UNCHANGED <<canvas, history, historyStep, upQ>>

\* The Clear button, confirmed
ClickClear ==
    \E c \in sockets :
        /\ Gesture(c)
        /\ SetManager(c, clear(Manager(c)))
        /\ Emit(c, << Msg("clear-canvas", NoPayload) >>)

\* What a handler emitted joins the queue of each recipient's connection.
Transmit == downQ' = [d \in ConnIds |-> downQ[d] \o sent'[d]]

\* A page opens its socket; the server's connection handler runs.
Join ==
    /\ Connect
    /\ Transmit
    /\ lateJoiners' = IF nActs > 0 THEN lateJoiners \cup {colorIndex + 1}
                                   ELSE lateJoiners
    /\ UNCHANGED <<nEvents, canvas, history, historyStep, knownUsers, currentPath,
                   loading, upQ, nActs>>

\* The server takes the oldest unhandled event of a connection and runs its
\* handler.
Route ==
    \E c \in sockets :
        /\ upQ[c] # <<>>
        /\ \/ Head(upQ[c]).type = "draw-start" /\ DrawStart
           \/ Head(upQ[c]).type = "draw-move" /\ DrawMove
           \/ Head(upQ[c]).type = "draw-end" /\ DrawEnd
           \/ Head(upQ[c]).type = "undo" /\ UndoEvent
           \/ Head(upQ[c]).type = "redo" /\ RedoEvent
           \/ Head(upQ[c]).type = "clear-canvas" /\ ClearCanvasEvent
        /\ event'.from = c
        /\ event'.data = Head(upQ[c]).data
        /\ upQ' = [upQ EXCEPT ![c] = Tail(@)]
        /\ Transmit
        /\ UNCHANGED <<nEvents, canvas, history, historyStep, knownUsers, currentPath,
                       loading, nActs, lateJoiners>>

\* loadCanvasState(url): the picture is painted when the Image's onload fires
loadCanvasState(c, url) == loading' = [loading EXCEPT ![c] = Append(@, url)]

\* The socket.on handlers of WebSocketManager.setupSocketListeners, run by
\* client c on message m.
OnMessage(c, m) ==
    LET known == m.data.userId \in knownUsers[c]
    IN  CASE m.type \in {"init", "undo", "redo"} ->
               /\ IF Truthy(m.data.canvasState)
                  THEN loadCanvasState(c, m.data.canvasState)
                  ELSE UNCHANGED loading
               /\ UNCHANGED <<canvas, history, historyStep, knownUsers, currentPath>>
          [] m.type = "users" ->
               /\ knownUsers' = [knownUsers EXCEPT
                               ![c] = @ \cup {m.data[i].id : i \in 1..Len(m.data)}]
               /\ currentPath' = [currentPath EXCEPT ![c] =
                     [u \in ConnIds |->
                         IF u \in {m.data[i].id : i \in 1..Len(m.data)} THEN 0 ELSE @[u]]]
               /\ UNCHANGED <<canvas, history, historyStep, loading>>
          [] m.type = "user-joined" ->
               /\ knownUsers' = [knownUsers EXCEPT ![c] = @ \cup {m.data.id}]
               /\ currentPath' = [currentPath EXCEPT ![c][m.data.id] = 0]
               /\ UNCHANGED <<canvas, history, historyStep, loading>>
          [] m.type = "user-left" ->
               /\ knownUsers' = [knownUsers EXCEPT ![c] = @ \ {m.data}]
               /\ UNCHANGED <<canvas, history, historyStep, currentPath, loading>>
          [] m.type = "draw-start" ->
               /\ currentPath' = IF known
                                 THEN [currentPath EXCEPT ![c][m.data.userId] = 1]
                                 ELSE currentPath
               /\ UNCHANGED <<canvas, history, historyStep, knownUsers, loading>>
          [] m.type = "draw-move" ->
               /\ currentPath' = IF known
                                 THEN [currentPath EXCEPT
                                          ![c][m.data.userId] = @ + BatchLength]
                                 ELSE currentPath
               /\ canvas' = IF known
                            THEN [canvas EXCEPT ![c] =
                                    renderPath(@, currentPath[c][m.data.userId]
                                                  + BatchLength)]
                            ELSE canvas
               /\ UNCHANGED <<history, historyStep, knownUsers, loading>>
          [] m.type = "draw-end" ->
               /\ currentPath' = IF known
                                 THEN [currentPath EXCEPT ![c][m.data.userId] = 0]
                                 ELSE currentPath
               /\ canvas' = IF known /\ PathLength(m.data.path) > 0
                            THEN [canvas EXCEPT ![c] =
                                    renderPath(@, PathLength(m.data.path))]
                            ELSE canvas
               /\ UNCHANGED <<history, historyStep, knownUsers, loading>>
          [] m.type = "clear-canvas" ->
               /\ SetManager(c, clear(Manager(c)))
               /\ UNCHANGED <<knownUsers, currentPath, loading>>

\* Variant of the client's connection: the newest message is handled first.
Deliver_NewestFirst ==
    \E c \in ConnIds :
        /\ downQ[c] # <<>>
        /\ OnMessage(c, downQ[c][Len(downQ[c])])
        /\ downQ' = [downQ EXCEPT ![c] = SubSeq(@, 1, Len(@) - 1)]
        /\ UNCHANGED <<storeVars, serverVars, registryVars, upQ, nActs, lateJoiners>>

\* Client c handles the oldest message of its connection.
Deliver ==
    \E c \in ConnIds :
        /\ downQ[c] # <<>>
        /\ OnMessage(c, Head(downQ[c]))
        /\ downQ' = [downQ EXCEPT ![c] = Tail(@)]
        /\ UNCHANGED <<storeVars, serverVars, registryVars, upQ, nActs, lateJoiners>>

\* img.onload of a loadCanvasState: white fill, drawImage, saveState.  Images
\* are decoded independently: any pending one may complete next.
ImgLoad ==
    \E c \in ConnIds : \E i \in 1..Len(loading[c]) :
        /\ SetManager(c, saveState([Manager(c) EXCEPT
                                       !.canvas = drawImage(loading[c][i])]))
        /\ loading' = [loading EXCEPT ![c] =
                          SubSeq(@, 1, i - 1) \o SubSeq(@, i + 1, Len(@))]
        /\ UNCHANGED <<storeVars, serverVars, registryVars,
                       knownUsers, currentPath, upQ, downQ,
                       nActs, lateJoiners>>

\* One more gesture in a run of several clients.
Quota ==
    /\ nActs < MaxActs
    /\ nActs' = nActs + 1
    /\ UNCHANGED <<soloVars, auxVars>>

ClientsNext ==
    \/ colorIndex < MaxClients /\ Join /\ UNCHANGED <<soloVars, auxVars>>
    \/ Route /\ UNCHANGED <<soloVars, auxVars>>
    \/ Quota /\ Stroke
    \/ Quota /\ ClickUndo
    \/ Quota /\ ClickRedo
    \/ Quota /\ ClickClear
    \/ Deliver /\ UNCHANGED <<soloVars, auxVars>>
    \/ ImgLoad /\ UNCHANGED <<soloVars, auxVars>>

\* No event waits for its handler, no message waits for its client, and no
\* image waits for its onload.
Quiescent ==
    \A c \in ConnIds : upQ[c] = <<>> /\ downQ[c] = <<>> /\ loading[c] = <<>>

\* The client is in no run of undos.
NoWalk == [active |-> FALSE, history |-> <<>>, historyStep |-> 0,
           canvas |-> Blank, undos |-> 0]

SoloInit == walk = NoWalk

\* One more gesture of the one user of a single-client run.
SoloQuota ==
    /\ nActs < MaxSoloActs
    /\ nActs' = nActs + 1
    /\ UNCHANGED auxVars

\* A gesture other than undo ends the run of undos.
EndWalk == walk' = NoWalk

\* An undo made when everything sent before it has been handled begins a run
\* of undos, or continues the one the client is in; an undo made while
\* something is still in flight, or one that finds nothing to undo, is part
\* of no run.
StepWalk ==
    walk' = IF ~Quiescent \/ historyStep[1] = 0 THEN NoWalk
            ELSE IF walk.active THEN [walk EXCEPT !.undos = @ + 1]
            ELSE [active |-> TRUE, history |-> history[1],
                  historyStep |-> historyStep[1], canvas |-> canvas[1],
                  undos |-> 1]

\* One browser client alone in the room.
SoloNext ==
    \/ colorIndex = 0 /\ Join /\ UNCHANGED <<soloVars, auxVars>>
    \/ Route /\ UNCHANGED <<soloVars, auxVars>>
    \/ SoloQuota /\ Stroke /\ EndWalk
    \/ SoloQuota /\ ClickUndo /\ StepWalk
    \/ SoloQuota /\ ClickRedo /\ EndWalk
    \/ SoloQuota /\ ClickClear /\ EndWalk
    \/ Deliver /\ UNCHANGED <<soloVars, auxVars>>
    \/ ImgLoad /\ UNCHANGED <<soloVars, auxVars>>

-----------------------------------------------------------------------------
(* Pages that lose their connection and reconnect *)

AuxInit ==
    /\ offline = {}
    /\ processed = <<>>
    /\ stamps = [c \in ConnIds |-> <<>>]
    /\ inbox = [c \in ConnIds |-> <<>>]

\* A connection closes: the server's disconnect handler runs, what was in
\* flight on the connection is lost, and the page keeps its WebSocketManager
\* and its CanvasManager.
Leave ==
    /\ Disconnect
    /\ downQ' = [d \in ConnIds |->
                    IF d = event'.from THEN <<>> ELSE downQ[d] \o sent'[d]]
    /\ upQ' = [upQ EXCEPT ![event'.from] = <<>>]
    /\ offline' = offline \cup {event'.from}
    /\ UNCHANGED <<nEvents, canvas, history, historyStep, knownUsers, currentPath,
                   loading, nActs, lateJoiners>>
    /\ UNCHANGED <<soloVars, processed, stamps, inbox>>

\* socket.io reconnects a page (reconnection: true): the server accepts a new
\* connection with a new id; the page's WebSocketManager and CanvasManager
\* are the ones it had, now behind the new id.
Rejoin ==
    \E old \in offline :
        LET c == colorIndex + 1
        IN  /\ Connect
            /\ Transmit
            /\ offline' = offline \ {old}
            /\ canvas' = [canvas EXCEPT ![c] = canvas[old]]
            /\ history' = [history EXCEPT ![c] = history[old]]
            /\ historyStep' = [historyStep EXCEPT ![c] = historyStep[old]]
            /\ knownUsers' = [knownUsers EXCEPT ![c] = knownUsers[old]]
            /\ currentPath' = [currentPath EXCEPT ![c] = currentPath[old]]
            /\ loading' = [loading EXCEPT ![c] = loading[old]]
            /\ UNCHANGED <<nEvents, upQ, nActs, lateJoiners>>
            /\ UNCHANGED <<soloVars, processed, stamps, inbox>>

\* Users open the page, lose their connection and get it back.
PresenceNext ==
    \/ colorIndex < MaxJoins /\ Join /\ UNCHANGED <<soloVars, auxVars>>
    \/ Leave
    \/ colorIndex < MaxJoins /\ Rejoin
    \/ Deliver /\ UNCHANGED <<soloVars, auxVars>>

-----------------------------------------------------------------------------
(* The order of events and messages, recorded *)

\* s without its i-th element
Without(s, i) == SubSeq(s, 1, i - 1) \o SubSeq(s, i + 1, Len(s))

\* The messages a handler emitted are stamped n, each behind the messages its
\* connection already carries.
Stamp(n) ==
    stamps' = [d \in ConnIds |-> stamps[d] \o [i \in 1..Len(sent'[d]) |-> n]]

\* The event just handled is the next of processed.
Record ==
    /\ processed' = Append(processed, event')
    /\ Stamp(Len(processed) + 1)
    /\ UNCHANGED <<soloVars, offline, inbox>>

\* The message a client just handled, with its stamp, is the next of its
\* inbox.
Receive ==
    LET c == CHOOSE d \in ConnIds : downQ'[d] # downQ[d]
        i == CHOOSE k \in 1..Len(downQ[c]) :
                 /\ downQ'[c] = Without(downQ[c], k)
                 /\ \A j \in 1..(k - 1) : downQ'[c] # Without(downQ[c], j)
    IN  /\ inbox' = [inbox EXCEPT ![c] =
                        Append(@, [n |-> stamps[c][i], type |-> downQ[c][i].type])]
        /\ stamps' = [stamps EXCEPT ![c] = Without(@, i)]
        /\ UNCHANGED <<soloVars, offline, processed>>

\* One more gesture in a run whose order is recorded.
OrderQuota ==
    /\ nActs < MaxOrderActs
    /\ nActs' = nActs + 1
    /\ UNCHANGED <<soloVars, auxVars>>

\* The server with its clients, the order of what happens being recorded.
OrderNext ==
    \/ colorIndex < MaxClients /\ Join /\ Stamp(0)
          /\ UNCHANGED <<soloVars, offline, processed, inbox>>
    \/ Route /\ Record
    \/ OrderQuota /\ Stroke
    \/ OrderQuota /\ ClickUndo
    \/ OrderQuota /\ ClickRedo
    \/ OrderQuota /\ ClickClear
    \/ Deliver /\ Receive
    \/ ImgLoad /\ UNCHANGED <<soloVars, auxVars>>

-----------------------------------------------------------------------------
(* The Room Registry driven directly through its public methods *)

\* The users handed to addUser: one per id.
RegistryUsers ==
    {[id |-> i, username |-> n, color |-> USER_COLORS[i], socketId |-> i] :
        i \in 1..MaxConns, n \in Usernames}

\* The maxAge arguments of cleanupEmptyRooms.
MaxAges == 0..MaxClock

RegistryInit ==
    /\ clock = 0
    /\ rcall = [op |-> "new", roomId |-> Null, arg |-> Null]
    /\ rret = Null
    /\ vacated = [r \in RoomIds |-> -1]
    /\ nCalls = 0

\* What every direct Room Registry call does to the bookkeeping variables;
\* res is what the method leaves and returns.
RegistryCall(op, roomId, arg, res) ==
    /\ nCalls < MaxCalls
    /\ nCalls' = nCalls + 1
    /\ rcall' = [op |-> op, roomId |-> roomId, arg |-> arg]
    /\ prevReg' = registry
    /\ registry' = res.registry
    /\ rret' = res.ret
    /\ vacated' = [r \in RoomIds |->
                      IF getUserCount(res.registry, r) > 0 THEN -1
                      ELSE IF getUserCount(registry, r) > 0 THEN clock
                      ELSE vacated[r]]
    /\ UNCHANGED <<storeVars, clientVars, soloVars, auxVars, clock>>
    /\ UNCHANGED <<sockets, colorIndex, event, sent, crashed, nEvents>>

AddUser ==
    \E r \in RoomIds, u \in RegistryUsers :
        RegistryCall("addUser", r, u, [registry |-> addUser(registry, r, u), ret |-> TRUE])

RemoveUser ==
    \E r \in RoomIds, i \in 1..MaxConns :
        RegistryCall("removeUser", r, i, removeUser(registry, r, i))

DeleteRoom ==
    \E r \in RoomIds : RegistryCall("deleteRoom", r, Null, deleteRoom(registry, r))

CleanupEmptyRooms ==
    \E maxAge \in MaxAges :
        RegistryCall("cleanupEmptyRooms", Null, maxAge, cleanupEmptyRooms(registry, maxAge))

\* Time passes between calls.
Tick ==
    /\ clock < MaxClock
    /\ clock' = clock + 1
    /\ UNCHANGED <<storeVars, serverVars, clientVars, soloVars, auxVars>>
    /\ UNCHANGED <<rcall, rret, vacated, nCalls>>

RegistryNext ==
    \/ AddUser
    \/ RemoveUser
    \/ DeleteRoom
    \/ CleanupEmptyRooms
    \/ Tick

vars == <<storeVars, serverVars, clientVars, soloVars, registryVars, auxVars>>

Init == StoreInit /\ ServerInit /\ ClientInit /\ SoloInit /\ RegistryInit /\ AuxInit

Next == StoreNext

\* Any interleaving of History Store calls on any rooms.
Spec == Init /\ [][Next]_vars

\* Any interleaving of setCanvasState, undo and redo (no clearCanvas).
SpecUndoStack == Init /\ [][UndoStackNext]_vars

\* Only setCanvasState calls, each room receiving pairwise distinct snapshots.
SpecCommits == Init /\ [][CommitsNext]_vars

\* The server: connections arrive, send events and leave; one handler at a time.
SpecServer == Init /\ [][ServerNext]_vars

\* The server as connections come and go, more of them than the palette has
\* colours.
SpecPalette == Init /\ [][PaletteNext]_vars

\* The server and the users lists of its clients, as pages connect, lose
\* their connection and reconnect.
SpecPresence == Init /\ [][PresenceNext]_vars

\* The server with its browser clients, with the order in which the server
\* handled events and the clients handled messages.
SpecOrder == Init /\ [][OrderNext]_vars

\* The server with its browser clients: users make gestures, every connection
\* carries its events and its messages in order, one handler runs at a time.
SpecClients == Init /\ [][ClientsNext]_vars

\* addDrawing calls with pairwise distinct operations, and clearCanvas calls.
SpecLog == Init /\ [][LogNext]_vars

\* Any interleaving of Room Registry calls on any rooms, as time passes.
SpecRegistry == Init /\ [][RegistryNext]_vars

\* The server with one browser client, whose user draws, clears, undoes and
\* redoes.
SpecSolo == Init /\ [][SoloNext]_vars

-----------------------------------------------------------------------------
(* Reading the state *)

Exists(rs, r) == rs[r] # NoRoom

\* The room state a call on r starts from once initRoom has run.
Vivified(rs, r) == initRoom(rs, r)[r]

\* The snapshot of the entry under the cursor (history non-empty).
AtCursor(room) == room.history[room.historyIndex + 1].state

\* The last call was op on room r.
Called(op, r) == call.op = op /\ call.roomId = r

\* The last call was one of the store's state-mutating operations on r and
\* took effect (an undo or redo that moved the cursor).
Mutated(r) ==
    \/ Called("setCanvasState", r)
    \/ Called("clearCanvas", r)
    \/ (Called("undo", r) \/ Called("redo", r)) /\ rooms[r] # prev[r]

\* The cursor of room r is on the last entry (nothing to redo).
CursorAtEnd(rs, r) ==
    Exists(rs, r) => rs[r].historyIndex = Len(rs[r].history) - 1

\* The other rooms are as they were before the last call.
OthersUnchanged(r) == \A q \in RoomIds \ {r} : rooms[q] = prev[q]

\* Array.prototype.push + the cap of setCanvasState, as the spec describes the
\* shared "prune/append/cap" step.
PruneAppendCap(room, entry) ==
    LET h == Append(SubSeq(room.history, 1, room.historyIndex + 1), entry)
    IN  IF Len(h) > maxHistorySize THEN Tail(h) ELSE h

-----------------------------------------------------------------------------
(* Claims *)

\* C1 (cursor bounds): in every reachable state of every room,
\* -1 <= historyIndex < history.length, and historyIndex = -1 exactly when
\* the history is empty.
C1_CursorBounds ==
    \A r \in RoomIds :
        Exists(rooms, r) =>
            /\ -1 <= rooms[r].historyIndex
            /\ rooms[r].historyIndex < Len(rooms[r].history)
            /\ (rooms[r].historyIndex = -1 <=> Len(rooms[r].history) = 0)

\* C1 witness: setCanvasState has just evicted the oldest entry of a full
\* history (the step that moves the cursor and the length together).
C1_Witness ==
    \E r \in RoomIds :
        /\ Called("setCanvasState", r)
        /\ Exists(prev, r)
        /\ Len(prev[r].history) = maxHistorySize
        /\ prev[r].historyIndex = maxHistorySize - 1
        /\ rooms[r].historyIndex = maxHistorySize - 1

\* C2 (as claimed): after every state-mutating History Store operation on a
\* room with non-empty history, canvasState equals the snapshot of the entry
\* under the cursor - also for clearCanvas called after an undo.
C2_CanvasStateAtCursor ==
    \A r \in RoomIds :
        (Mutated(r) /\ Len(rooms[r].history) > 0) =>
            rooms[r].canvasState = AtCursor(rooms[r])

\* C3 (as claimed): for every room and every sequence of setCanvasState, undo,
\* redo and clearCanvas calls, history.length never exceeds maxHistorySize.
C3_HistoryBounded ==
    \A r \in RoomIds :
        Exists(rooms, r) => Len(rooms[r].history) <= maxHistorySize

\* C4 (FIFO eviction): after k > N setCanvasState calls with distinct
\* snapshots on an initially empty room and nothing else, the history holds
\* exactly the N most recent snapshots in commit order, the first k-N are
\* absent, historyIndex = N-1 and canvasState is the last snapshot committed.
C4_FifoEviction ==
    \A r \in RoomIds :
        LET k == Len(committed[r])
            N == maxHistorySize
        IN  k > N =>
              /\ Len(rooms[r].history) = N
              /\ \A i \in 1..N :
                    rooms[r].history[i] = StateEntry(committed[r][k - N + i])
              /\ \A j \in 1..(k - N) : \A i \in 1..N :
                    rooms[r].history[i].state # committed[r][j]
              /\ rooms[r].historyIndex = N - 1
              /\ rooms[r].canvasState = committed[r][k]

\* C4 witness: a room has received at least N+2 distinct snapshots, so the cap
\* has evicted twice.
C4_Witness ==
    \E r \in RoomIds :
        /\ Len(committed[r]) >= maxHistorySize + 2
        /\ Called("setCanvasState", r)

\* C5 (undo-stack prune), for runs of setCanvasState, undo and redo:
\*  (a) a setCanvasState(C) made while entries lie after the cursor (a state
\*      only a successful undo produces) leaves exactly the entries up to the
\*      cursor followed by C, with the cursor on C;
\*  (b) every setCanvasState leaves the cursor on the last entry, and the
\*      cursor stays there through every call that is not an undo;
\*  (c) while the cursor is on the last entry redo returns null and changes
\*      nothing.
\* (b) and (c) together: after the commit every redo returns null until
\* another undo occurs.
C5_UndoStackPrune ==
    \A r \in RoomIds :
        /\ ( /\ Called("setCanvasState", r)
             /\ Exists(prev, r)
             /\ prev[r].historyIndex < Len(prev[r].history) - 1 )
           => /\ rooms[r].history =
                    Append(SubSeq(prev[r].history, 1, prev[r].historyIndex + 1),
                           StateEntry(call.arg))
              /\ rooms[r].historyIndex = Len(rooms[r].history) - 1
        /\ Called("setCanvasState", r) => CursorAtEnd(rooms, r)
        /\ (CursorAtEnd(prev, r) /\ Exists(prev, r) /\ ~Called("undo", r))
           => CursorAtEnd(rooms, r)
        /\ (Called("redo", r) /\ CursorAtEnd(prev, r))
           => (ret = Null /\ rooms = prev)

\* C5 witness: commit A, commit B, undo, commit C - the commit of C has just
\* pruned B and the history is exactly [A, C] with the cursor at 1.
C5_Witness ==
    \E r \in RoomIds :
        /\ Called("setCanvasState", r)
        /\ call.arg = "C"
        /\ Exists(prev, r)
        /\ prev[r].history = <<StateEntry("A"), StateEntry("B")>>
        /\ prev[r].historyIndex = 0
        /\ rooms[r].history = <<StateEntry("A"), StateEntry("C")>>
        /\ rooms[r].historyIndex = 1

\* C6 (as claimed): after clearCanvas(roomId), from any reachable state, the
\* entries that were after the cursor are discarded, the last entry is the
\* clear marker, historyIndex = history.length - 1, history.length <= N,
\* canvasState is null and the operation log is empty.
C6_ClearPruneAppendCap ==
    \A r \in RoomIds :
        Called("clearCanvas", r) =>
            /\ rooms[r].history = PruneAppendCap(Vivified(prev, r), ClearEntry)
            /\ rooms[r].history[Len(rooms[r].history)] = ClearEntry
            /\ rooms[r].historyIndex = Len(rooms[r].history) - 1
            /\ Len(rooms[r].history) <= maxHistorySize
            /\ rooms[r].canvasState = Null
            /\ rooms[r].drawings = <<>>

\* C7 (undo): with historyIndex > 0, undo decrements historyIndex by exactly
\* one, sets canvasState to the snapshot of the entry now under the cursor and
\* returns it, leaving history and drawings unchanged; with historyIndex 0, an
\* empty history or no room state it returns null and changes nothing.
C7_Undo ==
    \A r \in RoomIds :
        Called("undo", r) =>
            IF Exists(prev, r) /\ prev[r].historyIndex > 0
            THEN /\ rooms[r].historyIndex = prev[r].historyIndex - 1
                 /\ rooms[r].canvasState = prev[r].history[prev[r].historyIndex].state
                 /\ ret = prev[r].history[prev[r].historyIndex].state
                 /\ rooms[r].history = prev[r].history
                 /\ rooms[r].drawings = prev[r].drawings
                 /\ OthersUnchanged(r)
            ELSE ret = Null /\ rooms = prev

\* C7 witness: an undo has moved the cursor of a room whose operation log is
\* not empty and returned a snapshot.
C7_Witness ==
    \E r \in RoomIds :
        /\ Called("undo", r)
        /\ rooms[r] # prev[r]
        /\ ret \in Snapshots
        /\ rooms[r].drawings # <<>>

\* C8 (redo): with historyIndex < history.length - 1, redo increments
\* historyIndex by exactly one, sets canvasState to the snapshot of the entry
\* now under the cursor and returns it, leaving the history unchanged;
\* otherwise it returns null and changes nothing.
C8_Redo ==
    \A r \in RoomIds :
        Called("redo", r) =>
            IF Exists(prev, r) /\ prev[r].historyIndex < Len(prev[r].history) - 1
            THEN /\ rooms[r].historyIndex = prev[r].historyIndex + 1
                 /\ rooms[r].canvasState = prev[r].history[prev[r].historyIndex + 2].state
                 /\ ret = prev[r].history[prev[r].historyIndex + 2].state
                 /\ rooms[r].history = prev[r].history
                 /\ rooms[r].drawings = prev[r].drawings
                 /\ OthersUnchanged(r)
            ELSE ret = Null /\ rooms = prev

\* C8 witness: a redo has moved the cursor forward and returned a snapshot
\* different from the one it left.
C8_Witness ==
    \E r \in RoomIds :
        /\ Called("redo", r)
        /\ Exists(prev, r)
        /\ rooms[r].historyIndex = prev[r].historyIndex + 1
        /\ ret \in Snapshots
        /\ ret # prev[r].canvasState

\* C9 (as claimed): whenever undo or redo returns null, historyIndex and
\* canvasState are what they were before the call - also in histories that
\* contain clear markers.
C9_NullIsNoOp ==
    \A r \in RoomIds :
        ((Called("undo", r) \/ Called("redo", r)) /\ ret = Null) =>
            IF Exists(prev, r)
            THEN /\ rooms[r].historyIndex = prev[r].historyIndex
                 /\ rooms[r].canvasState = prev[r].canvasState
            ELSE rooms[r] = prev[r]


\* The relayed kinds, and the event the claim expects a receiver to get: the
\* sender's id with the fields of the sender's payload.
DrawKinds == {"draw-start", "draw-move", "draw-end", "cursor-move"}

RelayOf(e) ==
    CASE e.kind = "draw-start"  -> [userId |-> e.from, point |-> e.data.point]
      [] e.kind = "draw-move"   -> [userId |-> e.from, points |-> e.data.points]
      [] e.kind = "draw-end"    -> [userId |-> e.from, path |-> e.data.path]
      [] e.kind = "cursor-move" -> [userId |-> e.from, x |-> e.data.x, y |-> e.data.y]

Room0 == rooms[roomId0]
PrevRoom0 == Vivified(prev, roomId0)

\* The last handler ran to its end (it did not throw on a missing payload).
Completed == event.data # NoPayload \/ event.kind \in {"clear-canvas", "ping",
                                                      "connection", "disconnect"}

\* The last event was an undo or redo carrying a snapshot.
CarriesSnapshot ==
    /\ event.kind \in {"undo", "redo"}
    /\ event.data # NoPayload
    /\ Truthy(event.data.canvasState)

C12_LastWriteWins ==
    /\ CarriesSnapshot => Room0.canvasState = event.data.canvasState
    /\ event.kind = "clear-canvas" => Room0.canvasState = Null
    /\ (event.kind # "start" /\ event.kind # "clear-canvas" /\ ~CarriesSnapshot)
       => Room0.canvasState = PrevRoom0.canvasState

\* C12 witness: a second user's snapshot has replaced the (different, non-null)
\* state another event had left.
C12_Witness ==
    /\ CarriesSnapshot
    /\ event.from = 2
    /\ PrevRoom0.canvasState \in {"A", "B"}
    /\ PrevRoom0.canvasState # event.data.canvasState
    /\ Room0.canvasState = event.data.canvasState

\* Two canvasState values a client cannot tell apart: equal, or both "no
\* snapshot" (undefined, null and '' are all skipped by `if (data.canvasState)`).
SameSnapshot(a, b) == (Truthy(a) \/ Truthy(b)) => a = b

\* C13 (as claimed): for every undo or redo event the server processes, the
\* canvasState of the outbound broadcast equals getCanvasState(room) right
\* after the event has been processed (an absent canvasState counting as null).
C13_BroadcastCarriesState ==
    (event.kind \in {"undo", "redo"} /\ Completed) =>
        \A d \in sockets :
            \A i \in 1..Len(sent[d]) :
                SameSnapshot(sent[d][i].data.canvasState,
                             getCanvasState(rooms, roomId0).ret)


\* The last event lacks what its kind requires: no payload object at all, or
\* a payload without the required field.
Malformed ==
    /\ event.kind \in DrawKinds \cup {"undo", "redo"}
    /\ \/ event.data = NoPayload
       \/ event.kind = "draw-start" /\ event.data.point = Undefined
       \/ event.kind = "draw-move" /\ event.data.points = Undefined
       \/ event.kind = "draw-end" /\ event.data.path = Undefined
       \/ event.kind = "cursor-move"
          /\ (event.data.x = Undefined \/ event.data.y = Undefined)
       \/ event.kind \in {"undo", "redo"} /\ event.data.canvasState = Undefined

\* C15 (as claimed): a malformed inbound event changes no room's drawing state
\* and no membership, sends nothing to any connection and raises no exception
\* in the handler.
C15_MalformedDropped ==
    Malformed =>
        /\ rooms = prev
        /\ registry = prevReg
        /\ sent = NoneSent
        /\ ~crashed

\* C16 (as claimed): a draw-end whose path is empty is neither recorded in the
\* operation log nor relayed.
C16_DrawEndNeedsPath ==
    ( /\ event.kind = "draw-end"
      /\ event.data # NoPayload
      /\ event.data.path = EmptyPath )
    => /\ Room0.drawings = PrevRoom0.drawings
       /\ sent = NoneSent

C18_DisconnectFanOut ==
    event.kind = "disconnect" =>
        LET c     == event.from
            users == registry[roomId0].users
        IN  /\ \A i \in 1..Len(users) : users[i].id # c
            /\ users = SelectSeq(prevReg[roomId0].users, LAMBDA u : u.id # c)
            /\ {users[i].id : i \in 1..Len(users)} = sockets
            /\ \A d \in ConnIds :
                  sent[d] = IF d \in sockets
                            THEN <<Msg("user-left", c), Msg("users", users)>>
                            ELSE <<>>

\* C18 witness: connection 2 of three has left; 1 and 3 were told.
C18_Witness ==
    /\ event.kind = "disconnect"
    /\ event.from = 2
    /\ sockets = {1, 3}
    /\ Len(sent[1]) = 2
    /\ Len(sent[3]) = 2

\* C19 (connect fan-out): after connection c is accepted, the Registry holds
\* exactly one member with id c; c has received init with its id and the
\* room's current canvasState, then the users list, and no user-joined; every
\* connection that was already in the room has received exactly one
\* user-joined carrying c's user record.
C19_ConnectFanOut ==
    event.kind = "connection" =>
        LET c     == event.from
            users == registry[roomId0].users
            me    == {i \in 1..Len(users) : users[i].id = c}
        IN  /\ Cardinality(me) = 1
            /\ Len(sent[c]) = 2
            /\ sent[c][1].type = "init"
            /\ sent[c][1].data.userId = c
            /\ sent[c][1].data.canvasState = getCanvasState(rooms, roomId0).ret
            /\ sent[c][2] = Msg("users", users)
            /\ \A d \in ConnIds \ {c} :
                  sent[d] = IF d \in sockets
                            THEN <<Msg("user-joined", users[CHOOSE i \in me : TRUE])>>
                            ELSE <<>>

\* C19 witness: the third connection joins two members while the room's
\* snapshot is A; it gets A in init and both members get user-joined.
C19_Witness ==
    /\ event.kind = "connection"
    /\ event.from = 3
    /\ sockets = {1, 2, 3}
    /\ sent[3][1].data.canvasState = "A"
    /\ sent[1] = sent[2]
    /\ Len(sent[1]) = 1

-----------------------------------------------------------------------------
(* Claims about the clients' canvases *)

\* C14 (convergence): once every event and message in flight has been handled
\* (each connection's in order) and every image has loaded, the canvases of
\* all connected clients show the same picture.  The runs considered are those
\* whose clients were all connected before the first gesture, so that every
\* client has been sent every event of the run.
C14_Convergence ==
    (Quiescent /\ lateJoiners = {}) =>
        \A c \in sockets : \A d \in sockets : canvas[c] = canvas[d]

\* The picture the init message of the last connection holds: that of its
\* canvasState, or the blank canvas the client keeps when canvasState is falsy.
InitPicture ==
    LET cs == sent[event.from][1].data.canvasState
    IN  IF Truthy(cs) THEN drawImage(cs) ELSE Blank

\* C20 (canvas synced to new users): when a user connects after draw-end
\* events were processed, the canvas state in its init shows the picture the
\* users already in the room have, and once the newcomer has handled its
\* messages and loaded that state its canvas equals theirs.
C20_NewUserSynced ==
    (event.kind = "connection" /\ Quiescent /\ Len(Room0.drawings) > 0) =>
        \A d \in sockets \ {event.from} :
            /\ InitPicture = canvas[d]
            /\ canvas[event.from] = canvas[d]

-----------------------------------------------------------------------------
(* Claims about one client's undo and redo *)

\* C21 (client redo restores the last undone action): when the client has
\* made one undo and has handled the server's echo of it (the undo message
\* and the onload of the image it carries), redo is possible and puts back
\* the picture the canvas showed just before the undo.
C21_RedoRestoresUndone ==
    (walk.active /\ walk.undos = 1 /\ Quiescent) =>
        /\ historyStep[1] < Len(history[1]) - 1
        /\ CanvasRedo(Manager(1)).canvas = walk.canvas

\* C22 (repeated client undo walks back through history): after k undos, each
\* made once the echo of the one before has been handled, and the echo of the
\* last handled too, the canvas shows the picture saved k steps before the
\* one the run of undos began at.
C22_UndoWalksBack ==
    (walk.active /\ Quiescent /\ walk.undos <= walk.historyStep) =>
        canvas[1] = walk.history[walk.historyStep - walk.undos + 1]

-----------------------------------------------------------------------------
(* Claims about the Room Registry *)

\* The ids of the members of room r in registry reg.
MemberIds(reg, r) ==
    IF reg[r] = NoRoom THEN {}
    ELSE {reg[r].users[i].id : i \in 1..Len(reg[r].users)}

\* The rooms the last call removed.
Removed == {r \in RoomIds : prevReg[r] # NoRoom /\ registry[r] = NoRoom}

\* C23 (idle sweep never removes an occupied room): cleanupEmptyRooms(maxAge)
\* leaves every room that has a member as it was, whatever its age, and
\* returns the number of rooms it removed.
C23_SweepSparesOccupied ==
    rcall.op = "cleanupEmptyRooms" =>
        /\ \A r \in RoomIds : getUserCount(prevReg, r) > 0 => registry[r] = prevReg[r]
        /\ rret = Cardinality(Removed)

\* C23 witness: a sweep removed one room and kept an occupied room that was
\* older than maxAge.
C23_Witness ==
    /\ rcall.op = "cleanupEmptyRooms"
    /\ rret = 1
    /\ \E r \in RoomIds :
          /\ getUserCount(registry, r) > 0
          /\ clock - registry[r].createdAt > rcall.arg

\* C24 (empty rooms survive a brief all-disconnect window): a room whose last
\* member left less than maxAge ago is still there after
\* cleanupEmptyRooms(maxAge), whenever the room was created.
C24_RecentlyVacatedKept ==
    rcall.op = "cleanupEmptyRooms" =>
        \A r \in RoomIds :
            (/\ prevReg[r] # NoRoom
             /\ vacated[r] >= 0
             /\ clock - vacated[r] < rcall.arg) => registry[r] # NoRoom

\* C25 (idempotent leave): removeUser(roomId, userId) returns true exactly
\* when the user was a member, and then removes that member only; otherwise
\* (unknown room, unknown user) it leaves the Registry as it was.  Either way
\* the user is no member afterwards, so a second call in a row returns false
\* and changes nothing.
C25_IdempotentLeave ==
    rcall.op = "removeUser" =>
        LET r       == rcall.roomId
            present == rcall.arg \in MemberIds(prevReg, r)
            again   == removeUser(registry, r, rcall.arg)
        IN  /\ rret = present
            /\ present => registry = [prevReg EXCEPT ![r].users =
                                        SelectSeq(@, LAMBDA u : u.id # rcall.arg)]
            /\ ~present => registry = prevReg
            /\ again.ret = FALSE
            /\ again.registry = registry

\* C25 witness: removeUser was called for a user who is not in a room that
\* exists and whose last member has left; it returned false.
C25_Witness ==
    /\ rcall.op = "removeUser"
    /\ rret = FALSE
    /\ registry[rcall.roomId] # NoRoom
    /\ vacated[rcall.roomId] >= 0

\* C26 (idempotent join): addUser(roomId, user) leaves the room existing with
\* the user stored under user.id, once; the other members and the other rooms
\* are as they were, and calling it again with the same user changes nothing.
C26_IdempotentJoin ==
    rcall.op = "addUser" =>
        LET r == rcall.roomId
            u == rcall.arg
        IN  /\ registry[r] # NoRoom
            /\ MemberIds(registry, r) = MemberIds(prevReg, r) \cup {u.id}
            /\ getUserCount(registry, r) = Cardinality(MemberIds(registry, r))
            /\ \E i \in 1..Len(registry[r].users) : registry[r].users[i] = u
            /\ \A r2 \in RoomIds \ {r} : registry[r2] = prevReg[r2]
            /\ addUser(registry, r, u) = registry

\* C26 witness: addUser was called for a user who was already a member of a
\* room with two members.
C26_Witness ==
    /\ rcall.op = "addUser"
    /\ rcall.arg.id \in MemberIds(prevReg, rcall.roomId)
    /\ getUserCount(registry, rcall.roomId) = 2

\* C27 (rooms are destroyed only by the sweep): addUser and removeUser remove
\* no room, even when the last member leaves; a room disappears only in a
\* cleanupEmptyRooms or deleteRoom call.
C27_OnlySweepDestroys ==
    /\ rcall.op \in {"addUser", "removeUser"} => Removed = {}
    /\ Removed # {} => rcall.op \in {"cleanupEmptyRooms", "deleteRoom"}

\* C27 witness: the last member of a room has just left and the room is
\* still in the Registry, empty.
C27_Witness ==
    /\ rcall.op = "removeUser"
    /\ rret = TRUE
    /\ registry[rcall.roomId] # NoRoom
    /\ getUserCount(registry, rcall.roomId) = 0

-----------------------------------------------------------------------------
(* Claims about the operation log *)

\* The smaller of two numbers.
Min(a, b) == IF a < b THEN a ELSE b

\* C28 (operation log bound): whatever addDrawing and clearCanvas calls were
\* made, a room's operation log holds at most 2N entries, and they are the
\* most recent of the operations recorded since the last clearCanvas, in the
\* order they arrived, with none missing in between.
C28_LogBoundedSuffix ==
    \A r \in RoomIds :
        Exists(rooms, r) =>
            /\ Len(rooms[r].drawings) <= 2 * maxHistorySize
            /\ Len(rooms[r].drawings) <= Len(logged[r])
            /\ rooms[r].drawings = SliceLast(logged[r], Len(rooms[r].drawings))

\* C28 witness: a room was given more than 2N operations without a clear, so
\* its log has been trimmed and holds fewer operations than were recorded.
C28_Witness ==
    \E r \in RoomIds :
        /\ Exists(rooms, r)
        /\ Len(logged[r]) > 2 * maxHistorySize
        /\ Len(rooms[r].drawings) < Len(logged[r])
        /\ Len(rooms[r].drawings) > 0

\* C29 (operation log retention): after k addDrawing calls with no
\* clearCanvas in between, the log holds exactly the min(k, 2N) most recent
\* operations.
C29_LogKeepsUpToCap ==
    \A r \in RoomIds :
        Exists(rooms, r) =>
            rooms[r].drawings =
                SliceLast(logged[r], Min(Len(logged[r]), 2 * maxHistorySize))

\* C30 (drawing events do not feed the undo stack): handling draw-start,
\* draw-move or cursor-move leaves every room's drawing state and the
\* Registry as they were; handling draw-end leaves the Registry and every
\* other room as they were and changes nothing of the room but its operation
\* log.
C30_DrawEventsFrame ==
    /\ event.kind \in {"draw-start", "draw-move", "cursor-move"} =>
          rooms = prev /\ registry = prevReg
    /\ event.kind = "draw-end" =>
          /\ registry = prevReg
          /\ \A r \in RoomIds \ {roomId0} : rooms[r] = prev[r]
          /\ Room0.canvasState = PrevRoom0.canvasState
          /\ Room0.history = PrevRoom0.history
          /\ Room0.historyIndex = PrevRoom0.historyIndex

\* C30 witness: a draw-end was handled in a room whose undo stack holds a
\* snapshot; the stroke is in the operation log.
C30_Witness ==
    /\ event.kind = "draw-end"
    /\ Completed
    /\ Len(Room0.history) > 0
    /\ Room0.canvasState = "A"
    /\ Len(Room0.drawings) > Len(PrevRoom0.drawings)

-----------------------------------------------------------------------------
(* Claims about the server as a whole *)

\* C34 (server-side cursor is always at the end when driven by the Router):
\* whatever events the handlers have processed, every room's historyIndex is
\* history.length - 1; an undo or redo event carrying a snapshot appends that
\* snapshot as the newest history entry (the oldest entry leaving when the
\* cap is passed) and never moves the cursor back.
C34_RouterCursorAtEnd ==
    /\ \A r \in RoomIds : CursorAtEnd(rooms, r)
    /\ CarriesSnapshot =>
          LET pushed == Append(PrevRoom0.history, StateEntry(event.data.canvasState))
          IN  /\ Room0.history \in {pushed, Tail(pushed)}
              /\ Room0.historyIndex >= PrevRoom0.historyIndex

\* C34 witness: an undo event carrying a snapshot was handled in a room whose
\* history already held an entry; the history now holds two and the cursor is
\* on the second.
C34_Witness ==
    /\ event.kind = "undo"
    /\ CarriesSnapshot
    /\ Len(PrevRoom0.history) = 1
    /\ Len(Room0.history) = 2
    /\ Room0.historyIndex = 1

\* C35 (membership mirrors live connections): after any connects and
\* disconnects, the members of the default room in the Registry are exactly
\* the connections that have connected and not disconnected, each once and
\* under its own id, and getUserCount is their number.
C35_MembershipMirrorsSockets ==
    /\ MemberIds(registry, roomId0) = sockets
    /\ getUserCount(registry, roomId0) = Cardinality(sockets)
    /\ \A i \in 1..getUserCount(registry, roomId0) :
          registry[roomId0].users[i].socketId = registry[roomId0].users[i].id

\* C35 witness: three connections were accepted and the second has
\* disconnected; the first and the third are the members.
C35_Witness ==
    /\ event.kind = "disconnect"
    /\ event.from = 2
    /\ sockets = {1, 3}
    /\ getUserCount(registry, roomId0) = 2

\* C36 (store undo/redo round trip): in every reachable state, where undo
\* succeeds an immediately following redo puts historyIndex and canvasState
\* back and leaves history as it was, and where redo succeeds an immediately
\* following undo does the same.
C36_UndoRedoRoundTrip ==
    \A r \in RoomIds :
        Exists(rooms, r) =>
            /\ rooms[r].historyIndex > 0 =>
                  redo(undo(rooms, r).rooms, r).rooms[r] = rooms[r]
            /\ rooms[r].historyIndex < Len(rooms[r].history) - 1 =>
                  undo(redo(rooms, r).rooms, r).rooms[r] = rooms[r]

-----------------------------------------------------------------------------
(* Claims about the client's history *)

\* C38 (client-side history bounds): in every state of a client, whatever
\* strokes, undos, redos and clears its user made and whatever init, undo,
\* redo and clear-canvas messages it handled, its history holds at least one
\* picture and at most the limit, and historyStep points into it.
C38_ClientHistoryBounds ==
    \A c \in ConnIds :
        /\ 1 <= Len(history[c])
        /\ Len(history[c]) <= HistoryLimit
        /\ 0 <= historyStep[c]
        /\ historyStep[c] <= Len(history[c]) - 1

\* C38 witness: the client's history is full and its first picture is no
\* longer the blank canvas it began with, so the oldest entry has been
\* shifted out.
C38_Witness ==
    /\ Len(history[1]) = HistoryLimit
    /\ history[1][1] # Blank
    /\ historyStep[1] = HistoryLimit - 1

\* C39 (undo and redo are emitted only when the local step moved): whenever a
\* client puts an undo (redo) event on its connection, its undo() (redo()) has
\* just moved historyStep one back (forward) within its history, and the
\* event carries the data URL of the picture its history holds at the new
\* step.  A client at step 0 emits no undo and a client at its last step
\* emits no redo.
C39_EmitsOnlyAfterMove ==
    [][ \A c \in ConnIds :
          (/\ Len(upQ'[c]) > Len(upQ[c])
           /\ upQ'[c][Len(upQ'[c])].type \in {"undo", "redo"}) =>
              LET m == upQ'[c][Len(upQ'[c])]
              IN  /\ m.type = "undo" =>
                        /\ historyStep[c] > 0
                        /\ historyStep'[c] = historyStep[c] - 1
                  /\ m.type = "redo" =>
                        /\ historyStep[c] < Len(history[c]) - 1
                        /\ historyStep'[c] = historyStep[c] + 1
                  /\ history'[c] = history[c]
                  /\ m.data.canvasState =
                        getCanvasDataURL(history[c][historyStep'[c] + 1])
      ]_vars

\* C39 witness: three gestures were made, one of which was an Undo or Redo
\* click that found nothing to do and emitted nothing; the only event waiting
\* on the connection is the undo that took the client back to step 0.
C39_Witness ==
    /\ nActs = 3
    /\ Len(history[1]) = 2
    /\ historyStep[1] = 0
    /\ Len(upQ[1]) = 1
    /\ upQ[1][1].type = "undo"

-----------------------------------------------------------------------------
(* Claims about the colours of connections *)

-----------------------------------------------------------------------------
(* Claims about presence *)

\* The clients have handled every message sent to them.
AllDelivered == \A c \in sockets : downQ[c] = <<>>

\* C37 (client presence matches server membership): once every message in
\* flight has been delivered, the ids in the users map of each connected
\* client are the ids of the members the Registry has for the room, whatever
\* connects and disconnects happened, and also for a client that reconnected
\* under a new connection id and kept its local state.
C37_PresenceMatchesMembership ==
    AllDelivered =>
        \A c \in sockets : knownUsers[c] = MemberIds(registry, roomId0)

-----------------------------------------------------------------------------
(* Claims about order *)

\* The stamps of everything the server emitted to d: what d's client handled,
\* then what its connection still carries.
Stream(d) == [i \in 1..Len(inbox[d]) |-> inbox[d][i].n] \o stamps[d]

BroadcastKinds == {"undo", "redo", "clear-canvas"}

IsBroadcast(e) == e.kind \in BroadcastKinds

\* What the handler of a whole-room event appends to the room's history.
EntryOf(e) ==
    IF e.kind = "clear-canvas" THEN ClearEntry ELSE StateEntry(e.data.canvasState)

\* C31 (per-sender order): a client handles the relayed events of another
\* connection in the order in which the server handled that connection's
\* events, each as a message of the event's type, and once it has been sent
\* one of them it is sent every later one; each connection carries its
\* messages first in, first out.
C31_PerSenderOrder ==
    \A d \in sockets :
        /\ \A i \in 1..Len(inbox[d]) : inbox[d][i].n > 0 =>
              inbox[d][i].type = processed[inbox[d][i].n].kind
        /\ \A i, j \in 1..Len(inbox[d]) :
              (/\ i < j
               /\ inbox[d][i].n > 0
               /\ inbox[d][j].n > 0
               /\ processed[inbox[d][i].n].from = processed[inbox[d][j].n].from
               /\ processed[inbox[d][i].n].from # d)
                  => inbox[d][i].n < inbox[d][j].n
        /\ \A m, n \in 1..Len(processed) :
              (/\ m < n
               /\ processed[m].from = processed[n].from
               /\ processed[m].from # d
               /\ \E i \in 1..Len(Stream(d)) : Stream(d)[i] = m)
                  => \E j \in 1..Len(Stream(d)) : Stream(d)[j] = n

\* C31 witness: a client has handled the draw-start, the draw-move and the
\* draw-end of another client's stroke, one after the other.
C31_Witness ==
    \E d \in sockets : \E i \in 1..Len(inbox[d]) :
        /\ i + 2 <= Len(inbox[d])
        /\ inbox[d][i].type = "draw-start"
        /\ inbox[d][i + 1].type = "draw-move"
        /\ inbox[d][i + 2].type = "draw-end"
        /\ processed[inbox[d][i].n].from # d

\* C33 (whole-room broadcasts are totally ordered): whichever users sent
\* them, every client handles undo, redo and clear-canvas broadcasts in the
\* order in which the server handled the events, a member sent one of them is
\* sent every later one, and the room's history holds the entries of the most
\* recent of these events in that same order.
C33_BroadcastsTotallyOrdered ==
    /\ \A d \in sockets :
          /\ \A i, j \in 1..Len(inbox[d]) :
                (/\ i < j
                 /\ inbox[d][i].type \in BroadcastKinds
                 /\ inbox[d][j].type \in BroadcastKinds)
                    => inbox[d][i].n < inbox[d][j].n
          /\ \A m, n \in 1..Len(processed) :
                (/\ m < n
                 /\ IsBroadcast(processed[m])
                 /\ IsBroadcast(processed[n])
                 /\ \E i \in 1..Len(Stream(d)) : Stream(d)[i] = m)
                    => \E j \in 1..Len(Stream(d)) : Stream(d)[j] = n
    /\ LET applied == SelectSeq(processed, IsBroadcast)
       IN  applied # <<>> =>
              Room0.history =
                  SliceLast([k \in 1..Len(applied) |-> EntryOf(applied[k])],
                            maxHistorySize)

\* C33 witness: a client has handled two whole-room broadcasts that came from
\* the events of two different users, one of them its own.
C33_Witness ==
    \E d \in sockets : \E i, j \in 1..Len(inbox[d]) :
        /\ i < j
        /\ inbox[d][i].type \in BroadcastKinds
        /\ inbox[d][j].type \in BroadcastKinds
        /\ processed[inbox[d][i].n].from # processed[inbox[d][j].n].from
        /\ d \in {processed[inbox[d][i].n].from, processed[inbox[d][j].n].from}

=============================================================================
